---------------------------- MODULE Spec2Model ----------------------------
(***************************************************************************)
(* midi2stagetraxx: the timing and event-extraction engine                 *)
(* (src/src/extractor.rs), the StageTraxx line formatter                    *)
(* (src/src/formatter/stage_traxx_formatter.rs) and the SMPTE-offset        *)
(* decoder.                                                                 *)
(*                                                                         *)
(* f64 values are modelled as exact rationals <<n, d>> in lowest terms      *)
(* (d > 0): every f64 operation of the source is the corresponding exact    *)
(* rational operation, so IEEE-754 rounding error is outside the model.     *)
(* Option<T> is <<>> (None) or <<v>> (Some(v)).  A String is the sequence   *)
(* of its characters.                                                       *)
(***************************************************************************)
EXTENDS Integers, Sequences, FiniteSets, TLC

\* ------------------------------------------------------------------ bounds
\* Longest flattened event vector of one file.
MaxEvents == 3
\* Most tracks of one file.
MaxTracks == 2

\* --------------------------------------------------------------- constants
MICROS_PER_SEC == 1000000
DEFAULT_BPM == 120

\* ------------------------------------------------------------ f64 as exact
Abs(n) == IF n < 0 THEN 0 - n ELSE n

RECURSIVE GCD(_, _)
GCD(a, b) == IF b = 0 THEN a ELSE GCD(b, a % b)

Norm(n, d) == LET g == GCD(Abs(n), d) IN <<n \div g, d \div g>>

F64(n) == <<n, 1>>
FAdd(x, y) == Norm(x[1] * y[2] + y[1] * x[2], x[2] * y[2])
FMul(x, y) == Norm(x[1] * y[1], x[2] * y[2])
FDiv(x, y) == Norm(x[1] * y[2], x[2] * y[1])
FLeq(x, y) == x[1] * y[2] <= y[1] * x[2]
FLt(x, y) == x[1] * y[2] < y[1] * x[2]
\* `as u32` of a non-negative f64: truncation toward zero.
AsU32(x) == x[1] \div x[2]

\* ----------------------------------------------------------------- Option
None == <<>>
Some(v) == <<v>>
unwrap_or(o, d) == IF o = None THEN d ELSE o[1]


\* ------------------------------------------------------------- raw events
\* A TrackEvent of the midi_file crate: a delta time and an event.  kind is
\* the Event/Message/MetaEvent variant; channel, a, b are the channel
\* message's 0-based channel and two data bytes; tempo is SetTempo's
\* microseconds per quarter note; smpte is SmpteOffset's five raw bytes;
\* track is the 1-based track the event was read from.
NoSmpte == [hr |-> 0, mn |-> 0, se |-> 0, fr |-> 0, ff |-> 0]

TrackEvent(kind, dt, channel, a, b, tempo, smpte) ==
    [kind |-> kind, dt |-> dt, channel |-> channel, a |-> a, b |-> b,
     tempo |-> tempo, smpte |-> smpte, track |-> 0]

RawEvents ==
    { TrackEvent("NoteOn", 480, 0, 60, 100, 0, NoSmpte),
      TrackEvent("NoteOn", 0, 15, 61, 0, 0, NoSmpte),
      TrackEvent("NoteOff", 0, 0, 60, 64, 0, NoSmpte),
      TrackEvent("Control", 480, 3, 1, 62, 0, NoSmpte),
      TrackEvent("PitchBend", 480, 0, 0, 64, 0, NoSmpte),
      TrackEvent("SetTempo", 960, 0, 0, 0, 1000000, NoSmpte),
      TrackEvent("SetTempo", 0, 0, 0, 0, 250000, NoSmpte),
      TrackEvent("SmpteOffset", 480, 0, 0, 0, 0,
                 [hr |-> 69, mn |-> 0, se |-> 0, fr |-> 0, ff |-> 0]),
      TrackEvent("TimeSignature", 480, 0, 0, 0, 0, NoSmpte),
      TrackEvent("EndOfTrack", 0, 0, 0, 0, 0, NoSmpte) }

\* Header divisions of the files: Division::QuarterNote(n), Division::Smpte.
Divisions ==
    { [kind |-> "QuarterNote", qtr |-> 480],
      [kind |-> "QuarterNote", qtr |-> 96],
      [kind |-> "Smpte", qtr |-> 0] }

\* Values of the --override-midi-channel argument.
Overrides == { None, Some(5) }

\* Event::Midi(_)
IsMidi(ev) == ev.kind \in {"NoteOn", "NoteOff", "Control", "PitchBend"}

\* --------------------------------------------------------------- MidiEvent
MidiEvent(timestamp, message, channel) ==
    [timestamp |-> timestamp, message |-> message, channel |-> channel]

Message(tag, a, b) == [tag |-> tag, a |-> a, b |-> b]

\* ------------------------------------------------------- ticks_to_seconds
ticks_to_seconds(ticks, pulses_per_qn, tempo) ==
    LET tempo_in_secs == FDiv(F64(tempo), F64(1000000))
        beats == FDiv(F64(ticks), F64(pulses_per_qn))
    IN  FMul(beats, tempo_in_secs)

\* ------------------------------------------------------------ SMPTE decode
Pow2(k) == IF k = 0 THEN 1 ELSE IF k = 1 THEN 2 ELSE IF k = 2 THEN 4
           ELSE IF k = 3 THEN 8 ELSE IF k = 4 THEN 16 ELSE IF k = 5 THEN 32
           ELSE IF k = 6 THEN 64 ELSE IF k = 7 THEN 128 ELSE 256

\* u8 >> k
Shr(x, k) == x \div Pow2(k)

\* u8 & u8, bit by bit
RECURSIVE BitAnd(_, _)
BitAnd(x, y) ==
    IF x = 0 \/ y = 0 THEN 0
    ELSE (x % 2) * (y % 2) + 2 * BitAnd(x \div 2, y \div 2)

\* impl From<u8> for SmpteFrameSpec; "panic" is panic!("Invalid SMPTE frame rate")
SmpteFrameSpec_from(val) ==
    IF val = 0 THEN "F24"
    ELSE IF val = 1 THEN "F25"
    ELSE IF val = 2 THEN "F2997"
    ELSE IF val = 3 THEN "F30"
    ELSE "panic"

frame_rate(spec) ==
    IF spec = "F24" THEN F64(24)
    ELSE IF spec = "F25" THEN F64(25)
    ELSE IF spec = "F2997" THEN Norm(2997, 100)
    ELSE F64(30)

\* mem::transmute::<SmpteOffsetValue, SmpteOffsetValueLayout>: both structs
\* are repr(Rust) with five u8 fields, whose order in memory the language
\* leaves to the build, so any of the value's five bytes may be the one the
\* layout names hr.  hr is the only field of the layout the code reads (the
\* struct is #[allow(dead_code)]); the layout is modelled by that field.
SmpteFields == {"hr", "mn", "se", "fr", "ff"}

transmute(v) == { [hr |-> v[f]] : f \in SmpteFields }

\* extract_frame_rate_hrs shifting by 5 instead of 6 (C8 must not survive
\* it).
extract_frame_rate_hrs_shift_5(smpte_layout) ==
    LET mask == 3
        frame_rate_spec == BitAnd(Shr(smpte_layout.hr, 5), mask)
        spec == SmpteFrameSpec_from(frame_rate_spec)
        hr_mask == 31
        hr == BitAnd(smpte_layout.hr, hr_mask)
    IN  [panicked |-> FALSE, layout_hr |-> smpte_layout.hr,
         frame_rate |-> frame_rate(spec), hr |-> hr]

\* extract_frame_rate_hrs after the transmute: the decoded (fr, hr), or a
\* panic out of SmpteFrameSpec::from.
extract_frame_rate_hrs(smpte_layout) ==
    LET mask == 3
        frame_rate_spec == BitAnd(Shr(smpte_layout.hr, 6), mask)
        spec == SmpteFrameSpec_from(frame_rate_spec)
        hr_mask == 31
        hr == BitAnd(smpte_layout.hr, hr_mask)
    IN  IF spec = "panic"
        THEN [panicked |-> TRUE, layout_hr |-> smpte_layout.hr,
              frame_rate |-> F64(0), hr |-> 0]
        ELSE [panicked |-> FALSE, layout_hr |-> smpte_layout.hr,
              frame_rate |-> frame_rate(spec), hr |-> hr]

\* -------------------------------------------------------------- Extractor
\* Extractor::new's Ok(Self { .. }) for a tick-based division.
NewExtractor(override_midi_channel, pulses_per_qn) ==
    [override_midi_channel |-> override_midi_channel,
     pulses_per_qn |-> pulses_per_qn,
     ticks |-> 0,
     last_tempo_change_ticks |-> 0,
     elapsed_sec |-> F64(0),
     last_midi_event_ts |-> F64(0),
     current_tempo_micros_per_qn |->
         AsU32(FDiv(F64(MICROS_PER_SEC), FDiv(F64(DEFAULT_BPM), F64(60))))]

\* handle_note with the channel left 0-based (C6 must not survive it).
handle_note_zero_based(self, note, timestamp, on) ==
    LET velocity == IF on THEN note.b ELSE 0
        message == IF on THEN Message("NoteOn", note.a, velocity)
                   ELSE Message("NoteOff", note.a, velocity)
    IN  MidiEvent(timestamp, message,
                  unwrap_or(self.override_midi_channel, note.channel))

\* handle_note passing a note-off's release velocity on (C7 must not
\* survive it).
handle_note_keep_release_velocity(self, note, timestamp, on) ==
    LET velocity == note.b
        message == IF on THEN Message("NoteOn", note.a, velocity)
                   ELSE Message("NoteOff", note.a, velocity)
    IN  MidiEvent(timestamp, message,
                  unwrap_or(self.override_midi_channel, note.channel + 1))

handle_note(self, note, timestamp, on) ==
    LET velocity == IF on THEN note.b ELSE 0
        message == IF on THEN Message("NoteOn", note.a, velocity)
                   ELSE Message("NoteOff", note.a, velocity)
    IN  MidiEvent(timestamp, message,
                  unwrap_or(self.override_midi_channel, note.channel + 1))

handle_control_change(self, cc, timestamp) ==
    MidiEvent(timestamp, Message("ControlChange", cc.a, cc.b),
              unwrap_or(self.override_midi_channel, cc.channel + 1))

\* handle_midi_msg returning nothing for a note-off (C5 must not survive it).
handle_midi_msg_drop_note_off(self, msg, timestamp, dt) ==
    IF msg.kind = "NoteOn" THEN Some(handle_note(self, msg, timestamp, TRUE))
    ELSE IF msg.kind = "Control"
    THEN Some(handle_control_change(self, msg, timestamp))
    ELSE None

handle_midi_msg(self, msg, timestamp, dt) ==
    IF msg.kind = "NoteOn" THEN Some(handle_note(self, msg, timestamp, TRUE))
    ELSE IF msg.kind = "NoteOff"
    THEN Some(handle_note(self, msg, timestamp, FALSE))
    ELSE IF msg.kind = "Control"
    THEN Some(handle_control_change(self, msg, timestamp))
    ELSE None

\* handle_tempo_change that does not fold the finished segment into
\* elapsed_sec (C1 must not survive it).
handle_tempo_change_no_fold(self, new_tempo_micros_per_qn) ==
    [self EXCEPT
        !.last_tempo_change_ticks = self.ticks,
        !.current_tempo_micros_per_qn = new_tempo_micros_per_qn]

\* handle_tempo_change that installs the new tempo before it closes the
\* finished segment (C2 must not survive it).
handle_tempo_change_new_tempo(self, new_tempo_micros_per_qn) ==
    LET ticks_since_last_tempo_change ==
            self.ticks - self.last_tempo_change_ticks
    IN  [self EXCEPT
            !.last_tempo_change_ticks = self.ticks,
            !.elapsed_sec =
                FAdd(self.elapsed_sec,
                     ticks_to_seconds(ticks_since_last_tempo_change,
                                      self.pulses_per_qn,
                                      new_tempo_micros_per_qn)),
            !.current_tempo_micros_per_qn = new_tempo_micros_per_qn]

\* handle_tempo_change that leaves last_tempo_change_ticks where it was, so
\* the finished segment is counted again (C14 must not survive it).
handle_tempo_change_keep_mark(self, new_tempo_micros_per_qn) ==
    LET ticks_since_last_tempo_change ==
            self.ticks - self.last_tempo_change_ticks
    IN  [self EXCEPT
            !.elapsed_sec =
                FAdd(self.elapsed_sec,
                     ticks_to_seconds(ticks_since_last_tempo_change,
                                      self.pulses_per_qn,
                                      self.current_tempo_micros_per_qn)),
            !.current_tempo_micros_per_qn = new_tempo_micros_per_qn]

handle_tempo_change(self, new_tempo_micros_per_qn) ==
    LET ticks_since_last_tempo_change ==
            self.ticks - self.last_tempo_change_ticks
    IN  [self EXCEPT
            !.last_tempo_change_ticks = self.ticks,
            !.elapsed_sec =
                FAdd(self.elapsed_sec,
                     ticks_to_seconds(ticks_since_last_tempo_change,
                                      self.pulses_per_qn,
                                      self.current_tempo_micros_per_qn)),
            !.current_tempo_micros_per_qn = new_tempo_micros_per_qn]

\* handle_smpte_offset takes &self and only reports what it decoded.
handle_smpte_offset(self, smpte_layout) ==
    extract_frame_rate_hrs(smpte_layout)

NoDiag == [panicked |-> FALSE, layout_hr |-> 0, frame_rate |-> F64(0), hr |-> 0]

\* process_event that assigns the delta time to ticks instead of adding it,
\* which restarts the clock at every event (C10 must not survive it).
process_event_assign_ticks(self, track_event, smpte_layout) ==
    LET dt == track_event.dt
        s1 == [self EXCEPT !.ticks = dt]
    IN  IF IsMidi(track_event)
        THEN LET ticks_since_last_tempo_change ==
                     s1.ticks - s1.last_tempo_change_ticks
                 timestamp ==
                     FAdd(s1.elapsed_sec,
                          ticks_to_seconds(ticks_since_last_tempo_change,
                                           s1.pulses_per_qn,
                                           s1.current_tempo_micros_per_qn))
                 s2 == [s1 EXCEPT !.last_midi_event_ts = timestamp]
             IN  [self |-> s2,
                  out |-> handle_midi_msg(s2, track_event, timestamp,
                                          ticks_since_last_tempo_change),
                  diag |-> NoDiag]
        ELSE IF track_event.kind = "SetTempo"
        THEN [self |-> handle_tempo_change(s1, track_event.tempo),
              out |-> None, diag |-> NoDiag]
        ELSE [self |-> s1, out |-> None, diag |-> NoDiag]

\* process_event whose channel-message arm also folds the open segment into
\* elapsed_sec and moves last_tempo_change_ticks (C13 must not survive it).
process_event_midi_closes_segment(self, track_event, smpte_layout) ==
    LET dt == track_event.dt
        s1 == [self EXCEPT !.ticks = self.ticks + dt]
    IN  IF IsMidi(track_event)
        THEN LET ticks_since_last_tempo_change ==
                     s1.ticks - s1.last_tempo_change_ticks
                 timestamp ==
                     FAdd(s1.elapsed_sec,
                          ticks_to_seconds(ticks_since_last_tempo_change,
                                           s1.pulses_per_qn,
                                           s1.current_tempo_micros_per_qn))
                 s2 == [s1 EXCEPT !.last_midi_event_ts = timestamp,
                                  !.elapsed_sec = timestamp,
                                  !.last_tempo_change_ticks = s1.ticks]
             IN  [self |-> s2,
                  out |-> handle_midi_msg(s2, track_event, timestamp,
                                          ticks_since_last_tempo_change),
                  diag |-> NoDiag]
        ELSE IF track_event.kind = "SetTempo"
        THEN [self |-> handle_tempo_change(s1, track_event.tempo),
              out |-> None, diag |-> NoDiag]
        ELSE IF track_event.kind = "SmpteOffset"
        THEN [self |-> s1, out |-> None,
              diag |-> handle_smpte_offset(s1, smpte_layout)]
        ELSE [self |-> s1, out |-> None, diag |-> NoDiag]

\* process_event: the Extractor after the event, the Option<MidiEvent> it
\* returns, and what the SMPTE decoder reported (smpte_layout is the
\* transmuted value, read only by the SmpteOffset arm).
process_event(self, track_event, smpte_layout) ==
    LET dt == track_event.dt
        s1 == [self EXCEPT !.ticks = self.ticks + dt]
    IN  IF IsMidi(track_event)
        THEN LET ticks_since_last_tempo_change ==
                     s1.ticks - s1.last_tempo_change_ticks
                 timestamp ==
                     FAdd(s1.elapsed_sec,
                          ticks_to_seconds(ticks_since_last_tempo_change,
                                           s1.pulses_per_qn,
                                           s1.current_tempo_micros_per_qn))
                 s2 == [s1 EXCEPT !.last_midi_event_ts = timestamp]
             IN  [self |-> s2,
                  out |-> handle_midi_msg(s2, track_event, timestamp,
                                          ticks_since_last_tempo_change),
                  diag |-> NoDiag]
        ELSE IF track_event.kind = "SetTempo"
        THEN [self |-> handle_tempo_change(s1, track_event.tempo),
              out |-> None, diag |-> NoDiag]
        ELSE IF track_event.kind = "SmpteOffset"
        THEN [self |-> s1, out |-> None,
              diag |-> handle_smpte_offset(s1, smpte_layout)]
        ELSE [self |-> s1, out |-> None, diag |-> NoDiag]


\* Extractor::run as a function of the Extractor and the flattened vector:
\* the results it returns.
RECURSIVE run(_, _, _)
run(self, track_events, results) ==
    IF track_events = <<>> THEN results
    ELSE LET track_event == Head(track_events)
             smpte_layout == CHOOSE l \in transmute(track_event.smpte) : TRUE
             r == process_event(self, track_event, smpte_layout)
         IN  run(r.self, Tail(track_events),
                 IF r.out = None THEN results ELSE Append(results, r.out[1]))

\* ------------------------------------------------------------- formatter
Digit(d) == <<"0", "1", "2", "3", "4", "5", "6", "7", "8", "9">>[d + 1]

\* format!("{}", n) of an unsigned integer
RECURSIVE Display(_)
Display(n) == IF n < 10 THEN <<Digit(n)>>
              ELSE Display(n \div 10) \o <<Digit(n % 10)>>

\* format!("{:0w$}", n): zero-padded to at least w characters
RECURSIVE ZeroPad(_, _)
ZeroPad(str, w) == IF Len(str) >= w THEN str ELSE ZeroPad(<<"0">> \o str, w)

\* Duration::from_secs_f64 of a non-negative finite f64: the value rounded
\* to the nearest nanosecond, ties to even (std::time::Duration).
from_secs_f64(seconds) ==
    LET n == seconds[1]
        d == seconds[2]
        whole == n \div d
        r0 == n % d
        m1 == (r0 * 1000) \div d
        r1 == (r0 * 1000) % d
        m2 == (r1 * 1000) \div d
        r2 == (r1 * 1000) % d
        m3 == (r2 * 1000) \div d
        r3 == (r2 * 1000) % d
        floor_nanos == m1 * 1000000 + m2 * 1000 + m3
        add_ns == IF 2 * r3 > d THEN 1
                  ELSE IF 2 * r3 = d /\ floor_nanos % 2 = 1 THEN 1
                  ELSE 0
        nanos == floor_nanos + add_ns
    IN  IF nanos < 1000000000
        THEN [secs |-> whole, nanos |-> nanos]
        ELSE [secs |-> whole + 1, nanos |-> nanos - 1000000000]

as_secs(duration) == duration.secs
subsec_millis(duration) == duration.nanos \div 1000000

\* format_midi_time rounding the milliseconds to the nearest instead of
\* truncating them (C9 must not survive it).
format_midi_time_round_millis(seconds) ==
    LET duration == from_secs_f64(seconds)
        minutes == as_secs(duration) \div 60
        secs == as_secs(duration) % 60
        fractional == (duration.nanos + 500000) \div 1000000
    IN  ZeroPad(Display(minutes), 2) \o <<":">> \o ZeroPad(Display(secs), 2)
        \o <<".">> \o ZeroPad(Display(fractional), 3)

format_midi_time(seconds) ==
    LET duration == from_secs_f64(seconds)
        minutes == as_secs(duration) \div 60
        secs == as_secs(duration) % 60
        fractional == subsec_millis(duration)
    IN  ZeroPad(Display(minutes), 2) \o <<":">> \o ZeroPad(Display(secs), 2)
        \o <<".">> \o ZeroPad(Display(fractional), 3)

\* StageTraxxFormatter::format
format(ev) ==
    LET params ==
            IF ev.message.tag = "NoteOn"
            THEN <<<<"N">>, ev.message.a, ev.message.b>>
            ELSE IF ev.message.tag = "NoteOff"
            THEN <<<<"N">>, ev.message.a, 0>>
            ELSE <<<<"C", "C">>, ev.message.a, ev.message.b>>
    IN  <<"[", "m", "i", "d", "i", "@">> \o format_midi_time(ev.timestamp)
        \o <<":", " ">> \o params[1] \o Display(params[2]) \o <<".">>
        \o Display(params[3]) \o <<"@">> \o Display(ev.channel) \o <<"]">>

\* ------------------------------------------------- driver: collision filter
\* The driver's filter over the engine's output: of two adjacent events with
\* the same timestamp the earlier is dropped if it is a note-off, when
\* collision skipping is on.
\* skip_collisions dropping the earlier event of a colliding pair whatever
\* its kind (C4 must not survive it).
RECURSIVE skip_collisions_any_kind(_, _)
skip_collisions_any_kind(events, enabled) ==
    IF Len(events) <= 1 THEN events
    ELSE IF /\ enabled
            /\ events[1].timestamp = events[2].timestamp
         THEN skip_collisions_any_kind(Tail(events), enabled)
         ELSE <<events[1]>> \o skip_collisions_any_kind(Tail(events), enabled)

RECURSIVE skip_collisions(_, _)
skip_collisions(events, enabled) ==
    IF Len(events) <= 1 THEN events
    ELSE IF /\ enabled
            /\ events[1].timestamp = events[2].timestamp
            /\ events[1].message.tag = "NoteOff"
         THEN skip_collisions(Tail(events), enabled)
         ELSE <<events[1]>> \o skip_collisions(Tail(events), enabled)

\* ------------------------------------------------------------------ state
VARIABLES
    pc,              \* where the caller of the Extractor stands
    division,        \* midi_file.header().division()
    override_arg,    \* the override_midi_channel handed to Extractor::new
    extractor,       \* Option<Extractor>: None until Extractor::new returns Ok
    track_events,    \* run: the part of the flattened event vector processed
    results,         \* run: the results vector
    smpte_diag,      \* what the last SMPTE-offset decode reported
    final_output,    \* the driver's event list after the collision filter
    smpte_offset,    \* the SmpteOffsetValue handed to the decoder
    event,           \* the MidiEvent handed to the formatter
    line,            \* the String the formatter returned
    midi_file,       \* the flattened event vector of a file given up front
    overflow_checks, \* whether the build panics on integer overflow
    u32_fields,      \* ticks and last_tempo_change_ticks at their full width
    tick_log,        \* the events counted, their delta times' true sum, the last event
    main_state       \* the locals of main's inline timing loop

vars == <<pc, division, override_arg, extractor, track_events, results,
          smpte_diag, final_output, smpte_offset, event, line, midi_file,
          overflow_checks, u32_fields, tick_log, main_state>>

\* The variables only the full-width, whole-file and driver specifications
\* use, and the values they keep elsewhere.
aux_vars == <<midi_file, overflow_checks, u32_fields, tick_log, main_state>>

NoFile == <<>>
NoU32Fields == [ticks |-> <<0, 0>>, last_tempo_change_ticks |-> <<0, 0>>]
NoTickLog == [n |-> 0, sum |-> <<0, 0>>,
              event |-> [kind |-> "EndOfTrack", dt |-> <<0, 0>>]]
NoMain == <<>>

AuxIdle ==
    /\ midi_file = NoFile
    /\ overflow_checks = FALSE
    /\ u32_fields = NoU32Fields
    /\ tick_log = NoTickLog
    /\ main_state = NoMain

NoOutput == [filtered |-> FALSE, skip_collisions |-> FALSE, events |-> <<>>]
NoEvent == MidiEvent(F64(0), Message("NoteOn", 0, 0), 0)

\* The Extractor of a state in which Extractor::new has returned Ok.
Self == extractor[1]

Init ==
    /\ AuxIdle
    /\ pc = "start"
    /\ division \in Divisions
    /\ override_arg \in Overrides
    /\ extractor = None
    /\ track_events = <<>>
    /\ results = <<>>
    /\ smpte_diag = NoDiag
    /\ final_output = NoOutput
    /\ smpte_offset = NoSmpte
    /\ event = NoEvent
    /\ line = <<>>

\* Extractor::new: Ok(Self) for a tick-based division; the SMPTE arm is
\* unimplemented!("SMPTE division"), a panic.
New ==
    /\ UNCHANGED aux_vars
    /\ pc = "start"
    /\ IF division.kind = "QuarterNote"
       THEN /\ extractor' = Some(NewExtractor(override_arg, division.qtr))
            /\ pc' = "constructed"
       ELSE /\ extractor' = extractor
            /\ pc' = "panicked"
    /\ UNCHANGED <<division, override_arg, track_events, results, smpte_diag,
                   final_output, smpte_offset, event, line>>

\* Extractor::run up to its loop: the flattened vector is collected and
\* results is a new Vec.
RunStart ==
    /\ UNCHANGED aux_vars
    /\ pc = "constructed"
    /\ pc' = "running"
    /\ results' = <<>>
    /\ track_events' = <<>>
    /\ UNCHANGED <<division, override_arg, extractor, smpte_diag,
                   final_output, smpte_offset, event, line>>

\* The track of the event processed last.
CurTrack == IF track_events = <<>> THEN 1
            ELSE track_events[Len(track_events)].track

\* One turn of run's loop over the flattened vector: the next event of the
\* file (of the current track, or the first of the next one) goes through
\* process_event and its MidiEvent, if any, is pushed.
ProcessEvent ==
    /\ UNCHANGED aux_vars
    /\ pc = "running"
    /\ Len(track_events) < MaxEvents
    /\ \E ev \in RawEvents :
       \E t \in {CurTrack, CurTrack + 1} \cap 1..MaxTracks :
       \E smpte_layout \in (IF ev.kind = "SmpteOffset"
                            THEN transmute(ev.smpte)
                            ELSE {[hr |-> 0]}) :
          LET track_event == [ev EXCEPT !.track = t]
              r == process_event(Self, track_event, smpte_layout)
          IN  /\ (track_events = <<>>) => (t = 1)
              /\ track_events' = Append(track_events, track_event)
              /\ IF r.diag.panicked
                 THEN /\ pc' = "panicked"
                      /\ UNCHANGED <<extractor, results, smpte_diag>>
                 ELSE /\ pc' = pc
                      /\ extractor' = Some(r.self)
                      /\ results' = IF r.out = None THEN results
                                    ELSE Append(results, r.out[1])
                      /\ smpte_diag' = IF ev.kind = "SmpteOffset" THEN r.diag
                                       ELSE smpte_diag
    /\ UNCHANGED <<division, override_arg, final_output, smpte_offset,
                   event, line>>

\* run's Ok(results) once the vector is exhausted.
RunReturn ==
    /\ UNCHANGED aux_vars
    /\ pc = "running"
    /\ pc' = "returned"
    /\ UNCHANGED <<division, override_arg, extractor, track_events, results,
                   smpte_diag, final_output, smpte_offset, event, line>>

\* The driver filters the returned events before formatting them, with or
\* without collision skipping.
FilterOutput ==
    /\ UNCHANGED aux_vars
    /\ pc = "returned"
    /\ pc' = "filtered"
    /\ \E enabled \in BOOLEAN :
          final_output' = [filtered |-> TRUE, skip_collisions |-> enabled,
                           events |-> skip_collisions(results, enabled)]
    /\ UNCHANGED <<division, override_arg, extractor, track_events, results,
                   smpte_diag, smpte_offset, event, line>>

Next ==
    \/ New
    \/ RunStart
    \/ ProcessEvent
    \/ RunReturn
    \/ FilterOutput

Spec == Init /\ [][Next]_vars


\* ------------------------------------------------- the SMPTE decoder alone
\* SmpteOffsetValues whose hr takes every byte value.
SmpteValues ==
    { [hr |-> h, mn |-> m, se |-> 0, fr |-> 0, ff |-> 0] :
          h \in 0..255, m \in {0, 255} }

InitSmpte ==
    /\ AuxIdle
    /\ pc = "smpte"
    /\ division = [kind |-> "QuarterNote", qtr |-> 480]
    /\ override_arg = None
    /\ extractor = None
    /\ track_events = <<>>
    /\ results = <<>>
    /\ smpte_diag = NoDiag
    /\ final_output = NoOutput
    /\ smpte_offset \in SmpteValues
    /\ event = NoEvent
    /\ line = <<>>

\* extract_frame_rate_hrs on smpte_offset.
DecodeSmpte ==
    /\ UNCHANGED aux_vars
    /\ pc = "smpte"
    /\ \E smpte_layout \in transmute(smpte_offset) :
          LET d == extract_frame_rate_hrs(smpte_layout)
          IN  IF d.panicked
              THEN pc' = "panicked" /\ smpte_diag' = smpte_diag
              ELSE pc' = "decoded" /\ smpte_diag' = d
    /\ UNCHANGED <<division, override_arg, extractor, track_events, results,
                   final_output, smpte_offset, event, line>>

NextSmpte == DecodeSmpte

SpecSmpte == InitSmpte /\ [][NextSmpte]_vars

\* --------------------------------------------------- the formatter alone
\* Timestamps handed to the formatter, in seconds.
FormatTimestamps ==
    { F64(0), Norm(106704, 1000), Norm(1067049, 10000), Norm(599996, 10000),
      Norm(5, 10000), F64(3600), Norm(60005, 10), Norm(2, 3), Norm(1, 1024),
      Norm(3, 1024), Norm(2100, 2100001), Norm(59999, 1000) }

FormatMessages ==
    { Message("NoteOn", 60, 100), Message("NoteOn", 0, 0),
      Message("NoteOff", 60, 0), Message("NoteOff", 127, 64),
      Message("ControlChange", 1, 62) }

FormatChannels == {1, 3, 16}

InitFormat ==
    /\ AuxIdle
    /\ pc = "format"
    /\ division = [kind |-> "QuarterNote", qtr |-> 480]
    /\ override_arg = None
    /\ extractor = None
    /\ track_events = <<>>
    /\ results = <<>>
    /\ smpte_diag = NoDiag
    /\ final_output = NoOutput
    /\ smpte_offset = NoSmpte
    /\ \E t \in FormatTimestamps, m \in FormatMessages, c \in FormatChannels :
          event = MidiEvent(t, m, c)
    /\ line = <<>>

\* StageTraxxFormatter::format on event.
Format ==
    /\ UNCHANGED aux_vars
    /\ pc = "format"
    /\ pc' = "formatted"
    /\ line' = format(event)
    /\ UNCHANGED <<division, override_arg, extractor, track_events, results,
                   smpte_diag, final_output, smpte_offset, event>>

NextFormat == Format

SpecFormat == InitFormat /\ [][NextFormat]_vars

\* ------------------------------------- the u32 tick counters at full width
\* ticks and last_tempo_change_ticks are u32.  A u32, and the true sum of
\* the delta times, is written <<hi, lo>> for hi * 65536 + lo; a value fits
\* u32 when hi < 65536.
Limb == 65536

\* Events processed per file at most.
MaxTickEvents == 18

LAdd(x, y) ==
    LET lo == x[2] + y[2] IN <<x[1] + y[1] + lo \div Limb, lo % Limb>>

LLeq(x, y) == x[1] < y[1] \/ (x[1] = y[1] /\ x[2] <= y[2])

FitsU32(x) == x[1] < Limb

\* The low 32 bits.
WrapU32(x) == <<x[1] % Limb, x[2]>>

\* Delta times: 0 and 0x0FFFFFFF, the largest a variable-length quantity of
\* a Standard MIDI File holds.
DeltaTimes == { <<0, 0>>, <<4095, 65535>> }

TickKinds == {"NoteOn", "NoteOff", "Control", "PitchBend", "SetTempo",
              "SmpteOffset", "TimeSignature", "EndOfTrack"}

TickEvents == { [kind |-> k, dt |-> d] : k \in TickKinds, d \in DeltaTimes }

\* process_event_u32 that leaves the clock alone for events it only logs
\* (C12 must not survive it).
process_event_u32_skip_logged(self, track_event, checks) ==
    LET sum == IF track_event.kind \in {"TimeSignature", "EndOfTrack"}
               THEN self.ticks
               ELSE LAdd(self.ticks, track_event.dt)
    IN  IF ~FitsU32(sum) /\ checks
        THEN [panicked |-> TRUE, self |-> self]
        ELSE LET s1 == [self EXCEPT !.ticks = WrapU32(sum)]
             IN  IF track_event.kind = "SetTempo"
                 THEN [panicked |-> FALSE,
                       self |-> [s1 EXCEPT !.last_tempo_change_ticks = s1.ticks]]
                 ELSE [panicked |-> FALSE, self |-> s1]

\* process_event that moves last_tempo_change_ticks to the tick after the
\* tempo change (C16 must not survive it).
process_event_u32_late_mark(self, track_event, checks) ==
    LET sum == LAdd(self.ticks, track_event.dt)
    IN  IF ~FitsU32(sum) /\ checks
        THEN [panicked |-> TRUE, self |-> self]
        ELSE LET s1 == [self EXCEPT !.ticks = WrapU32(sum)]
             IN  IF track_event.kind = "SetTempo"
                 THEN [panicked |-> FALSE,
                       self |-> [s1 EXCEPT !.last_tempo_change_ticks =
                                               LAdd(s1.ticks, <<0, 1>>)]]
                 ELSE [panicked |-> FALSE, self |-> s1]

\* What process_event and handle_tempo_change do to the two u32 fields:
\* self.ticks += dt, which panics on overflow in a build with overflow
\* checks and wraps in one without; ticks - last_tempo_change_ticks in the
\* channel-message and tempo arms, which panics on underflow with the checks
\* on; last_tempo_change_ticks = ticks in the tempo arm.  The f64 fields do
\* not feed back into these two and are left out.
process_event_u32(self, track_event, checks) ==
    LET sum == LAdd(self.ticks, track_event.dt)
    IN  IF ~FitsU32(sum) /\ checks
        THEN [panicked |-> TRUE, self |-> self]
        ELSE LET s1 == [self EXCEPT !.ticks = WrapU32(sum)]
                 subtracts == IsMidi(track_event) \/ track_event.kind = "SetTempo"
                 underflow == ~LLeq(s1.last_tempo_change_ticks, s1.ticks)
             IN  IF subtracts /\ underflow /\ checks
                 THEN [panicked |-> TRUE, self |-> s1]
                 ELSE IF track_event.kind = "SetTempo"
                 THEN [panicked |-> FALSE,
                       self |-> [s1 EXCEPT !.last_tempo_change_ticks = s1.ticks]]
                 ELSE [panicked |-> FALSE, self |-> s1]

InitTicks ==
    /\ pc = "ticks"
    /\ division = [kind |-> "QuarterNote", qtr |-> 480]
    /\ override_arg = None
    /\ extractor = None
    /\ track_events = <<>>
    /\ results = <<>>
    /\ smpte_diag = NoDiag
    /\ final_output = NoOutput
    /\ smpte_offset = NoSmpte
    /\ event = NoEvent
    /\ line = <<>>
    /\ midi_file = NoFile
    /\ overflow_checks \in BOOLEAN
    /\ u32_fields = NoU32Fields
    /\ tick_log = NoTickLog
    /\ main_state = NoMain

\* One turn of run's loop, seen on the u32 fields.  A panic ends the run;
\* the log then names the event that was being processed.
ProcessEventU32 ==
    /\ pc = "ticks"
    /\ tick_log.n < MaxTickEvents
    /\ \E track_event \in TickEvents :
          LET r == process_event_u32(u32_fields, track_event, overflow_checks)
          IN  IF r.panicked
              THEN /\ pc' = "overflow_panicked"
                   /\ tick_log' = [tick_log EXCEPT !.event = track_event]
                   /\ u32_fields' = u32_fields
              ELSE /\ pc' = pc
                   /\ u32_fields' = r.self
                   /\ tick_log' = [n |-> tick_log.n + 1,
                                   sum |-> LAdd(tick_log.sum, track_event.dt),
                                   event |-> track_event]
    /\ UNCHANGED <<division, override_arg, extractor, track_events, results,
                   smpte_diag, final_output, smpte_offset, event, line,
                   midi_file, overflow_checks, main_state>>

NextTicks == ProcessEventU32

SpecTicks == InitTicks /\ [][NextTicks]_vars


\* ================================================================= claims
\* The raw input seen from outside the engine: positions, absolute ticks and
\* tempo segments of the processed vector.
Qualifies(ev) == ev.kind \in {"NoteOn", "NoteOff", "Control"}

\* Positions in track_events of the note-on, note-off and control-change
\* events, and the position of the j-th of them.
QualIdx == { i \in 1..Len(track_events) : Qualifies(track_events[i]) }
QPos(j) == CHOOSE i \in QualIdx : Cardinality({ k \in QualIdx : k < i }) = j - 1
Raw(j) == track_events[QPos(j)]

RECURSIVE AbsTicks(_)
AbsTicks(k) == IF k = 0 THEN 0 ELSE AbsTicks(k - 1) + track_events[k].dt

\* Position of the last tempo change among the first k events (0: none).
RECURSIVE LastTempoIdx(_)
LastTempoIdx(k) ==
    IF k = 0 THEN 0
    ELSE IF track_events[k].kind = "SetTempo" THEN k
    ELSE LastTempoIdx(k - 1)

\* Tempo in force after the first k events.
TempoAfter(k) ==
    IF LastTempoIdx(k) = 0 THEN 500000
    ELSE track_events[LastTempoIdx(k)].tempo

\* Duration in seconds of len ticks at tempo.
SegSeconds(len, tempo) ==
    FMul(FDiv(F64(len), F64(division.qtr)), FDiv(F64(tempo), F64(1000000)))

\* Total duration of the tempo segments closed by the first k events.
RECURSIVE ClosedSeconds(_)
ClosedSeconds(k) ==
    IF k = 0 THEN F64(0)
    ELSE IF track_events[k].kind = "SetTempo"
    THEN FAdd(ClosedSeconds(k - 1),
              SegSeconds(AbsTicks(k) - AbsTicks(LastTempoIdx(k - 1)),
                         TempoAfter(k - 1)))
    ELSE ClosedSeconds(k - 1)

\* Closed segments plus the open one up to event k.
ExpectedTimestamp(k) ==
    FAdd(ClosedSeconds(k),
         SegSeconds(AbsTicks(k) - AbsTicks(LastTempoIdx(k)), TempoAfter(k)))

Constructed == extractor # None

\* C1: every pair of adjacent events of the sequence run builds and returns
\* has non-decreasing timestamps, whatever the mix of events and tracks.
C1_MonotonicTiming ==
    \A i \in 1..(Len(results) - 1) :
        FLeq(results[i].timestamp, results[i + 1].timestamp)

\* A returned two-track run with a tempo change between two emitted events,
\* the later one strictly later.
C1_Witness ==
    /\ pc = "returned"
    /\ Len(track_events) = 3
    /\ Len(results) = 2
    /\ track_events[2].kind = "SetTempo"
    /\ track_events[3].track = 2
    /\ FLt(results[1].timestamp, results[2].timestamp)

\* C2: elapsed_sec is the total duration of the closed tempo segments, and
\* every emitted timestamp is that total plus the open segment's share; with
\* 480 pulses per quarter note, a tempo change to 1,000,000 at tick 960 and
\* a note at tick 1440, the note is stamped exactly 2 seconds.
C2_TempoSegmentAccounting ==
    Constructed =>
        /\ Self.elapsed_sec = ClosedSeconds(Len(track_events))
        /\ Len(results) = Cardinality(QualIdx)
        /\ \A j \in 1..Len(results) :
               results[j].timestamp = ExpectedTimestamp(QPos(j))
        /\ ( /\ division.qtr = 480
             /\ Len(track_events) = 2
             /\ track_events[1].kind = "SetTempo"
             /\ track_events[1].dt = 960
             /\ track_events[1].tempo = 1000000
             /\ Qualifies(track_events[2])
             /\ track_events[2].dt = 480 )
           => results[1].timestamp = F64(2)

C2_Witness ==
    /\ pc = "returned"
    /\ division.qtr = 480
    /\ Len(track_events) = 2
    /\ track_events[1].kind = "SetTempo"
    /\ track_events[1].dt = 960
    /\ track_events[1].tempo = 1000000
    /\ track_events[2].kind = "NoteOn"
    /\ track_events[2].dt = 480
    /\ Self.elapsed_sec = F64(1)
    /\ results[1].timestamp = F64(2)

\* C3: an SMPTE-based division makes Extractor::new return an error value
\* (pc "new_err"), with no Extractor created and no MidiEvent emitted.
C3_SmpteDivisionIsErrValue ==
    (division.kind = "Smpte" /\ pc # "start") =>
        (pc = "new_err" /\ extractor = None /\ results = <<>>)

\* C4: with collision skipping on, the final output is the returned
\* sequence without every note-off that is directly followed by an event of
\* the same timestamp (a note-off and a note-on at one timestamp leave only
\* the note-on); with it off, the final output is the returned sequence.
CollidingNoteOffs ==
    { i \in 1..(Len(results) - 1) :
          /\ results[i].timestamp = results[i + 1].timestamp
          /\ results[i].message.tag = "NoteOff" }

KeptIdx == IF final_output.skip_collisions
           THEN (1..Len(results)) \ CollidingNoteOffs
           ELSE 1..Len(results)

KeptPos(k) == CHOOSE i \in KeptIdx : Cardinality({ j \in KeptIdx : j < i }) = k - 1

C4_CollisionFilter ==
    final_output.filtered =>
        /\ Len(final_output.events) = Cardinality(KeptIdx)
        /\ \A k \in 1..Len(final_output.events) :
               final_output.events[k] = results[KeptPos(k)]
        /\ (~final_output.skip_collisions) => final_output.events = results

C4_Witness ==
    /\ final_output.filtered
    /\ final_output.skip_collisions
    /\ Len(results) = 2
    /\ results[1].message.tag = "NoteOff"
    /\ results[2].message.tag = "NoteOn"
    /\ results[1].timestamp = results[2].timestamp
    /\ final_output.events = <<results[2]>>

\* C5: the returned sequence holds exactly one MidiEvent per raw note-on,
\* note-off and control-change event, none for any other event, in the raw
\* events' order.
TagOf(kind) == IF kind = "Control" THEN "ControlChange" ELSE kind

C5_ExactlyOnceInOrder ==
    /\ Len(results) = Cardinality(QualIdx)
    /\ \A j \in 1..Len(results) :
           /\ results[j].message.tag = TagOf(Raw(j).kind)
           /\ results[j].message.a = Raw(j).a

C5_Witness ==
    /\ pc = "returned"
    /\ Len(track_events) = 3
    /\ track_events[1].kind = "NoteOff"
    /\ track_events[2].kind \in {"PitchBend", "SetTempo", "SmpteOffset",
                                 "TimeSignature", "EndOfTrack"}
    /\ track_events[3].kind = "Control"
    /\ Len(results) = 2
    /\ results[1].message.tag = "NoteOff"
    /\ results[2].message.tag = "ControlChange"

\* C6: with an override channel c every emitted event has channel c;
\* without one every emitted event has its raw channel plus one, within
\* 1..16 (raw 0 gives 1, raw 15 gives 16).
C6_ChannelResolution ==
    /\ Len(results) = Cardinality(QualIdx)
    /\  \A j \in 1..Len(results) :
            IF override_arg = None
            THEN /\ results[j].channel = Raw(j).channel + 1
                 /\ results[j].channel \in 1..16
                 /\ (Raw(j).channel = 0) => results[j].channel = 1
                 /\ (Raw(j).channel = 15) => results[j].channel = 16
            ELSE results[j].channel = override_arg[1]

C6_Witness ==
    /\ pc = "returned"
    /\ override_arg = None
    /\ \E i, j \in 1..Len(results) :
           /\ Raw(i).channel = 0 /\ results[i].channel = 1
           /\ Raw(j).channel = 15 /\ results[j].channel = 16

\* C7: a raw note-off with any release velocity is emitted as NoteOff(note,
\* 0), a raw note-on as NoteOn(note, v) with v unchanged (0 included), a raw
\* control change as ControlChange(controller, value) unchanged.
C7_EventClassification ==
    /\ Len(results) = Cardinality(QualIdx)
    /\  \A j \in 1..Len(results) :
            results[j].message =
                IF Raw(j).kind = "NoteOff"
                THEN [tag |-> "NoteOff", a |-> Raw(j).a, b |-> 0]
                ELSE IF Raw(j).kind = "NoteOn"
                THEN [tag |-> "NoteOn", a |-> Raw(j).a, b |-> Raw(j).b]
                ELSE [tag |-> "ControlChange", a |-> Raw(j).a, b |-> Raw(j).b]

C7_Witness ==
    /\ pc = "returned"
    /\ Len(results) = 3
    /\ Raw(1).kind = "NoteOff" /\ Raw(1).b = 64
    /\ results[1].message = [tag |-> "NoteOff", a |-> 60, b |-> 0]
    /\ Raw(2).kind = "NoteOn" /\ Raw(2).b = 0
    /\ results[2].message = [tag |-> "NoteOn", a |-> 61, b |-> 0]
    /\ Raw(3).kind = "Control"
    /\ results[3].message = [tag |-> "ControlChange", a |-> 1, b |-> 62]

\* C8: for every value of the hr byte the decoder reads, the hour is
\* hr & 0b0001_1111 and the frame rate is the table's entry for
\* (hr >> 6) & 0b11 (0b0100_0101 gives 25.0 and hour 5), and the invalid
\* frame-rate-code panic is never reached.
FrameRateTable(code) ==
    CASE code = 0 -> <<24, 1>>
      [] code = 1 -> <<25, 1>>
      [] code = 2 -> <<2997, 100>>
      [] code = 3 -> <<30, 1>>

Pow10(k) == IF k = 0 THEN 1 ELSE IF k = 1 THEN 10 ELSE IF k = 2 THEN 100
            ELSE IF k = 3 THEN 1000 ELSE IF k = 4 THEN 10000 ELSE 100000

Width(n) == IF n < 10 THEN 1 ELSE IF n < 100 THEN 2 ELSE IF n < 1000 THEN 3
            ELSE IF n < 10000 THEN 4 ELSE 5

Decimal(n, min_width) ==
    LET w == IF Width(n) > min_width THEN Width(n) ELSE min_width
    IN  [i \in 1..w |-> Digit((n \div Pow10(w - i)) % 10)]

ExpectedLine(ev, whole_seconds, millis) ==
    <<"[", "m", "i", "d", "i", "@">>
    \o Decimal(whole_seconds \div 60, 2) \o <<":">>
    \o Decimal(whole_seconds % 60, 2) \o <<".">>
    \o Decimal(millis, 3) \o <<":", " ">>
    \o (IF ev.message.tag = "ControlChange" THEN <<"C", "C">> ELSE <<"N">>)
    \o Decimal(ev.message.a, 1) \o <<".">>
    \o Decimal(IF ev.message.tag = "NoteOff" THEN 0 ELSE ev.message.b, 1)
    \o <<"@">> \o Decimal(ev.channel, 1) \o <<"]">>

\* The timestamp in whole milliseconds, truncated.
TruncatedMillis(ts) == (ts[1] \div ts[2]) * 1000 + ((ts[1] % ts[2]) * 1000) \div ts[2]

\* The timestamp in whole milliseconds after rounding to the nearest
\* nanosecond: the truncated count, or one more when the timestamp lies at
\* most half a nanosecond below the next millisecond.
ShownMillis(ts) ==
    LET rem == ((ts[1] % ts[2]) * 1000) % ts[2]
    IN  IF rem > 0 /\ (ts[2] - rem) <= ts[2] \div 2000000
        THEN TruncatedMillis(ts) + 1
        ELSE TruncatedMillis(ts)

\* C9 as stated: the line shows the timestamp truncated to milliseconds.
C9_TruncatedToMillis ==
    pc = "formatted" =>
        line = ExpectedLine(event, TruncatedMillis(event.timestamp) \div 1000,
                            TruncatedMillis(event.timestamp) % 1000)

\* C9 as amended: the line is [midi@MM:SS.mmm: <TAG><arg1>.<arg2>@<channel>]
\* with TAG N for notes and CC for control changes, arg2 0 for a note-off,
\* and MM (not wrapped at 60), SS, mmm those of the timestamp rounded to the
\* nearest nanosecond and then truncated to milliseconds; NoteOn(60, 100) on
\* channel 3 at 106.704 s gives [midi@01:46.704: N60.100@3].
C9_FormatRoundedToNanos ==
    pc = "formatted" =>
        /\ line = ExpectedLine(event, ShownMillis(event.timestamp) \div 1000,
                               ShownMillis(event.timestamp) % 1000)
        /\ event = MidiEvent(<<13338, 125>>, Message("NoteOn", 60, 100), 3)
           => line = <<"[", "m", "i", "d", "i", "@", "0", "1", ":", "4", "6",
                       ".", "7", "0", "4", ":", " ", "N", "6", "0", ".", "1",
                       "0", "0", "@", "3", "]">>

C9_Witness ==
    /\ pc = "formatted"
    /\ event = MidiEvent(<<13338, 125>>, Message("NoteOn", 60, 100), 3)
    /\ line = <<"[", "m", "i", "d", "i", "@", "0", "1", ":", "4", "6", ".",
                "7", "0", "4", ":", " ", "N", "6", "0", ".", "1", "0", "0",
                "@", "3", "]">>

\* Flattened vectors of n events over at most MaxTracks tracks.
LastTrack(f) == IF f = <<>> THEN 1 ELSE f[Len(f)].track

RECURSIVE Files(_)
Files(n) ==
    IF n = 0 THEN { <<>> }
    ELSE UNION { { Append(f, [ev EXCEPT !.track = t]) :
                       ev \in RawEvents,
                       t \in (IF f = <<>> THEN {1}
                              ELSE {LastTrack(f), LastTrack(f) + 1} \cap 1..MaxTracks) } :
                 f \in Files(n - 1) }

Sorted(evs) ==
    \A i \in 1..(Len(evs) - 1) : FLeq(evs[i].timestamp, evs[i + 1].timestamp)

C11_SecondRunSameSequence ==
    pc = "returned" => run(Self, track_events, <<>>) = results

\* A turn of the loop that processed an event to its end.
TickStep == pc' = "ticks" /\ tick_log'.n = tick_log.n + 1

\* What C12 says of one such turn: ticks has grown by exactly the event's
\* delta time, equals the sum of all delta times so far, and has not
\* decreased.
ClockAdvanced ==
    /\ u32_fields'.ticks = LAdd(u32_fields.ticks, tick_log'.event.dt)
    /\ u32_fields'.ticks = tick_log'.sum
    /\ LLeq(u32_fields.ticks, u32_fields'.ticks)

\* C12 as stated: every processed event, whatever its kind, increases ticks
\* by exactly its delta time, so ticks is the sum of the delta times so far
\* and never decreases.
C12_ClockAdvanceAlways == [][TickStep => ClockAdvanced]_vars

\* C12 as amended: the same, for as long as the sum of the delta times
\* processed so far stays below 2^32.
C12_ClockAdvanceWithinU32 ==
    [][(TickStep /\ FitsU32(tick_log'.sum)) => ClockAdvanced]_vars

\* Sixteen events of every sort of kind, each 0x0FFFFFFF ticks after the one
\* before: ticks is 16 * 0x0FFFFFFF = 2^32 - 16 after a time-signature event.
C12_Witness ==
    /\ pc = "ticks"
    /\ tick_log.n = 16
    /\ tick_log.event = [kind |-> "TimeSignature", dt |-> <<4095, 65535>>]
    /\ tick_log.sum = <<65535, 65520>>
    /\ u32_fields.ticks = <<65535, 65520>>

\* A turn of run's loop that processed an event to its end, and that event.
LoopStep ==
    /\ pc = "running" /\ pc' = "running"
    /\ Len(track_events') = Len(track_events) + 1

StepEvent == track_events'[Len(track_events')]

\* C13: an event that is not a tempo change (a channel message handled or
\* not, an SMPTE offset, a time signature, any other meta event) leaves
\* last_tempo_change_ticks, elapsed_sec and the current tempo as they were,
\* and no event changes pulses_per_qn or the channel override.
C13_NonTempoFrame ==
    [][LoopStep =>
        /\ extractor'[1].pulses_per_qn = extractor[1].pulses_per_qn
        /\ extractor'[1].override_midi_channel = extractor[1].override_midi_channel
        /\ StepEvent.kind # "SetTempo" =>
              /\ extractor'[1].last_tempo_change_ticks =
                     extractor[1].last_tempo_change_ticks
              /\ extractor'[1].elapsed_sec = extractor[1].elapsed_sec
              /\ extractor'[1].current_tempo_micros_per_qn =
                     extractor[1].current_tempo_micros_per_qn]_vars

\* A note processed 480 ticks after a tempo change at tick 960: the tempo
\* state is still the one the tempo change left.
C13_Witness ==
    /\ pc = "running"
    /\ division.qtr = 480
    /\ Len(track_events) = 2
    /\ track_events[1].kind = "SetTempo" /\ track_events[1].dt = 960
    /\ track_events[2].kind = "NoteOn" /\ track_events[2].dt = 480
    /\ Self.ticks = 1440
    /\ Self.last_tempo_change_ticks = 960
    /\ Self.elapsed_sec = F64(1)
    /\ Self.current_tempo_micros_per_qn = 1000000
    /\ Len(results) = 1

\* elapsed_sec + ticks_to_seconds(ticks - last_tempo_change_ticks, ppqn,
\* tempo) of an Extractor, read at tick `ticks`.
TrueElapsed(self, ticks) ==
    FAdd(self.elapsed_sec,
         ticks_to_seconds(ticks - self.last_tempo_change_ticks,
                          self.pulses_per_qn,
                          self.current_tempo_micros_per_qn))

\* The timestamp process_event gives a note-on of delta time 0.
StampAtOnce(self) ==
    process_event(self, [TrackEvent("NoteOn", 0, 0, 60, 100, 0, NoSmpte)
                             EXCEPT !.track = 1],
                  [hr |-> 0]).out[1].timestamp

\* C14: a tempo change emits nothing, adds the finished segment at the old
\* tempo to elapsed_sec, moves last_tempo_change_ticks to ticks and installs
\* the new tempo; the true elapsed time is the same directly after the step
\* as with the old state at that tick, a channel event of delta time 0 is
\* stamped the same on either side of it, and elapsed_sec never decreases.
C14_TempoChangeStep ==
    [][LoopStep =>
        /\ FLeq(extractor[1].elapsed_sec, extractor'[1].elapsed_sec)
        /\ StepEvent.kind = "SetTempo" =>
              LET old == extractor[1]
                  new == extractor'[1]
                  oldAtTick == [old EXCEPT !.ticks = new.ticks]
              IN  /\ results' = results
                  /\ new.ticks = old.ticks + StepEvent.dt
                  /\ new.elapsed_sec =
                         FAdd(old.elapsed_sec,
                              ticks_to_seconds(
                                  new.ticks - old.last_tempo_change_ticks,
                                  old.pulses_per_qn,
                                  old.current_tempo_micros_per_qn))
                  /\ new.last_tempo_change_ticks = new.ticks
                  /\ new.current_tempo_micros_per_qn = StepEvent.tempo
                  /\ TrueElapsed(new, new.ticks) = TrueElapsed(old, new.ticks)
                  /\ StampAtOnce(new) = StampAtOnce(oldAtTick)]_vars

\* A note at tick 480, then a tempo change to 1,000,000 at tick 1440 (480
\* pulses per quarter note): 1.5 s are closed at the old tempo.
C14_Witness ==
    /\ pc = "running"
    /\ division.qtr = 480
    /\ Len(track_events) = 2
    /\ track_events[1].kind = "NoteOn" /\ track_events[1].dt = 480
    /\ track_events[2].kind = "SetTempo" /\ track_events[2].dt = 960
    /\ track_events[2].tempo = 1000000
    /\ Len(results) = 1
    /\ Self.elapsed_sec = <<3, 2>>
    /\ Self.last_tempo_change_ticks = 1440
    /\ Self.current_tempo_micros_per_qn = 1000000
    /\ StampAtOnce(Self) = <<3, 2>>

\* ------------------------------------------- run over a file given up front
\* The files: every flattened vector of at most MaxEvents of these events
\* over at most MaxTracks tracks.
RunEvents ==
    { ev \in RawEvents :
          \/ ev.kind \in {"NoteOff", "SmpteOffset", "EndOfTrack"}
          \/ ev.kind \in {"NoteOn", "SetTempo"} /\ ev.dt > 0 }

RECURSIVE FilesOf(_)
FilesOf(n) ==
    IF n = 0 THEN { <<>> }
    ELSE UNION { { Append(f, [ev EXCEPT !.track = t]) :
                       ev \in RunEvents,
                       t \in (IF f = <<>> THEN {1}
                              ELSE {LastTrack(f), LastTrack(f) + 1} \cap 1..MaxTracks) } :
                 f \in FilesOf(n - 1) }

RunFiles == UNION { FilesOf(n) : n \in 0..MaxEvents }

InitRun ==
    /\ pc = "load"
    /\ division = [kind |-> "QuarterNote", qtr |-> 480]
    /\ override_arg = None
    /\ extractor = None
    /\ track_events = <<>>
    /\ results = <<>>
    /\ smpte_diag = NoDiag
    /\ final_output = NoOutput
    /\ smpte_offset = NoSmpte
    /\ event = NoEvent
    /\ line = <<>>
    /\ midi_file = NoFile
    /\ overflow_checks = FALSE
    /\ u32_fields = NoU32Fields
    /\ tick_log = NoTickLog
    /\ main_state = NoMain

\* The caller parses its arguments and loads the file it hands to
\* Extractor::new.
LoadFile ==
    /\ pc = "load"
    /\ pc' = "start"
    /\ division' \in Divisions
    /\ override_arg' \in Overrides
    /\ midi_file' \in RunFiles
    /\ UNCHANGED <<extractor, track_events, results, smpte_diag,
                   final_output, smpte_offset, event, line, overflow_checks,
                   u32_fields, tick_log, main_state>>

\* run returning before its loop is through (C15 must not survive it).
ReturnFileEarly ==
    /\ pc = "running"
    /\ pc' = "returned"
    /\ UNCHANGED <<division, override_arg, extractor, track_events, results,
                   smpte_diag, final_output, smpte_offset, event, line,
                   midi_file, overflow_checks, u32_fields, tick_log,
                   main_state>>

\* One turn of run's loop: the next event of the vector goes through
\* process_event and its MidiEvent, if any, is pushed.
ProcessFileEvent ==
    /\ pc = "running"
    /\ Len(track_events) < Len(midi_file)
    /\ LET track_event == midi_file[Len(track_events) + 1]
       IN  \E smpte_layout \in (IF track_event.kind = "SmpteOffset"
                                THEN transmute(track_event.smpte)
                                ELSE {[hr |-> 0]}) :
              LET r == process_event(Self, track_event, smpte_layout)
              IN  /\ track_events' = Append(track_events, track_event)
                  /\ IF r.diag.panicked
                     THEN /\ pc' = "panicked"
                          /\ smpte_diag' = r.diag
                          /\ UNCHANGED <<extractor, results>>
                     ELSE /\ pc' = pc
                          /\ extractor' = Some(r.self)
                          /\ results' = IF r.out = None THEN results
                                        ELSE Append(results, r.out[1])
                          /\ smpte_diag' = IF track_event.kind = "SmpteOffset"
                                           THEN r.diag ELSE smpte_diag
    /\ UNCHANGED <<division, override_arg, final_output, smpte_offset,
                   event, line, midi_file, overflow_checks, u32_fields,
                   tick_log, main_state>>

\* run's Ok(results), after the for loop has exhausted the vector.
ReturnFile ==
    /\ pc = "running"
    /\ Len(track_events) = Len(midi_file)
    /\ pc' = "returned"
    /\ UNCHANGED <<division, override_arg, extractor, track_events, results,
                   smpte_diag, final_output, smpte_offset, event, line,
                   midi_file, overflow_checks, u32_fields, tick_log,
                   main_state>>

NextRun ==
    \/ LoadFile
    \/ New
    \/ RunStart
    \/ ProcessFileEvent
    \/ ReturnFile

\* What every turn of the loop does to the vector: it consumes the next
\* event.
LoopTurn ==
    /\ pc = "running"
    /\ Len(track_events) < Len(midi_file)
    /\ track_events' = Append(track_events, midi_file[Len(track_events) + 1])

\* The caller and the loop are sequential code: a step that can be taken
\* is taken.
SpecRun ==
    /\ InitRun /\ [][NextRun]_vars
    /\ WF_vars(LoadFile) /\ WF_vars(New) /\ WF_vars(RunStart)
    /\ WF_track_events(LoopTurn) /\ WF_vars(ReturnFile)

\* The note-on, note-off and control-change events of a vector.
QualifyingIn(f) == { i \in 1..Len(f) : Qualifies(f[i]) }

SumWithStep == LAdd(tick_log.sum, tick_log'.event.dt)

main_ticks_to_seconds(ticks, pulses_per_qn, tempo) ==
    LET tempo_in_secs == FDiv(F64(tempo), F64(1000000))
        beats == FDiv(F64(ticks), F64(pulses_per_qn))
    IN  FMul(beats, tempo_in_secs)

main_format_midi_time(seconds) ==
    LET duration == from_secs_f64(seconds)
        minutes == as_secs(duration) \div 60
        secs == as_secs(duration) % 60
        fractional == subsec_millis(duration)
    IN  ZeroPad(Display(minutes), 2) \o <<":">> \o ZeroPad(Display(secs), 2)
        \o <<".">> \o ZeroPad(Display(fractional), 3)

\* main.rs handle_note: the line it prints.
main_handle_note(note, timestamp, on, ch) ==
    LET velocity == IF on THEN note.b ELSE 0
    IN  <<"[", "m", "i", "d", "i", "@">> \o main_format_midi_time(timestamp)
        \o <<":", " ", "N">> \o Display(note.a) \o <<".">>
        \o Display(velocity) \o <<"@">>
        \o Display(unwrap_or(ch, note.channel + 1)) \o <<"]">>

\* main.rs handle_midi_msg: the line it prints.  For any other channel
\* message it prints "MIDI: " and the Debug text of the delta and the
\* message, of which only the prefix is kept.
main_handle_midi_msg(msg, timestamp, dt, ch) ==
    IF msg.kind = "NoteOn" THEN main_handle_note(msg, timestamp, TRUE, ch)
    ELSE IF msg.kind = "NoteOff"
    THEN main_handle_note(msg, timestamp, FALSE, ch)
    ELSE IF msg.kind = "Control"
    THEN <<"[", "m", "i", "d", "i", "@">> \o main_format_midi_time(timestamp)
         \o <<":", " ", "C", "C">> \o Display(msg.a) \o <<".">>
         \o Display(msg.b) \o <<"@">>
         \o Display(unwrap_or(ch, msg.channel + 1)) \o <<"]">>
    ELSE <<"M", "I", "D", "I", ":", " ">>

\* File formats of the header.
Formats == {"Single", "Multi", "Sequential"}

\* main's locals when its loop starts; printed is what the last turn wrote
\* to stdout.
NewMain(pulses_per_qn) ==
    [pulses_per_qn |-> pulses_per_qn,
     tempo_micros_per_q |-> AsU32(FDiv(F64(1000000), FDiv(F64(120), F64(60)))),
     ticks |-> 0,
     last_tempo_change_tick |-> 0,
     ellapsed_seconds |-> F64(0),
     last_midi_event_ts |-> F64(0),
     printed |-> None]

\* The loop body with the commented-out hack switched on: an event less
\* than 0.01 s after the last one is moved 0.01 s on (C17 must not survive
\* it).
main_loop_body_with_hack(m, track_event, ch, smpte_layout) ==
    LET dt == track_event.dt
        m1 == [m EXCEPT !.ticks = m.ticks + dt, !.printed = None]
    IN  IF IsMidi(track_event)
        THEN LET ticks_since_last_tempo_change ==
                     m1.ticks - m1.last_tempo_change_tick
                 computed ==
                     FAdd(m1.ellapsed_seconds,
                          main_ticks_to_seconds(ticks_since_last_tempo_change,
                                                m1.pulses_per_qn,
                                                m1.tempo_micros_per_q))
                 timestamp ==
                     IF FLt(computed, FAdd(m1.last_midi_event_ts, <<1, 100>>))
                     THEN FAdd(computed, <<1, 100>>)
                     ELSE computed
             IN  [m |-> [m1 EXCEPT
                            !.last_midi_event_ts = timestamp,
                            !.printed =
                                Some(main_handle_midi_msg(
                                         track_event, timestamp,
                                         ticks_since_last_tempo_change, ch))],
                  panicked |-> FALSE]
        ELSE IF track_event.kind = "SetTempo"
        THEN LET ticks_since_last_tempo_change ==
                     m1.ticks - m1.last_tempo_change_tick
             IN  [m |-> [m1 EXCEPT
                            !.last_tempo_change_tick = m1.ticks,
                            !.ellapsed_seconds =
                                FAdd(m1.ellapsed_seconds,
                                     main_ticks_to_seconds(
                                         ticks_since_last_tempo_change,
                                         m1.pulses_per_qn,
                                         m1.tempo_micros_per_q)),
                            !.tempo_micros_per_q = track_event.tempo],
                  panicked |-> FALSE]
        ELSE IF track_event.kind = "SmpteOffset"
        THEN [m |-> m1,
              panicked |-> extract_frame_rate_hrs(smpte_layout).panicked]
        ELSE [m |-> m1, panicked |-> FALSE]

\* One turn of main's inner for loop: the locals after it (printed: the
\* line written to stdout, if any) and whether the SMPTE decoder panicked.
\* main.rs's extract_frame_rate_hrs is the same text as extractor.rs's.
main_loop_body(m, track_event, ch, smpte_layout) ==
    LET dt == track_event.dt
        m1 == [m EXCEPT !.ticks = m.ticks + dt, !.printed = None]
    IN  IF IsMidi(track_event)
        THEN LET ticks_since_last_tempo_change ==
                     m1.ticks - m1.last_tempo_change_tick
                 timestamp ==
                     FAdd(m1.ellapsed_seconds,
                          main_ticks_to_seconds(ticks_since_last_tempo_change,
                                                m1.pulses_per_qn,
                                                m1.tempo_micros_per_q))
             IN  [m |-> [m1 EXCEPT
                            !.last_midi_event_ts = timestamp,
                            !.printed =
                                Some(main_handle_midi_msg(
                                         track_event, timestamp,
                                         ticks_since_last_tempo_change, ch))],
                  panicked |-> FALSE]
        ELSE IF track_event.kind = "SetTempo"
        THEN LET ticks_since_last_tempo_change ==
                     m1.ticks - m1.last_tempo_change_tick
             IN  [m |-> [m1 EXCEPT
                            !.last_tempo_change_tick = m1.ticks,
                            !.ellapsed_seconds =
                                FAdd(m1.ellapsed_seconds,
                                     main_ticks_to_seconds(
                                         ticks_since_last_tempo_change,
                                         m1.pulses_per_qn,
                                         m1.tempo_micros_per_q)),
                            !.tempo_micros_per_q = track_event.tempo],
                  panicked |-> FALSE]
        ELSE IF track_event.kind = "SmpteOffset"
        THEN [m |-> m1,
              panicked |-> extract_frame_rate_hrs(smpte_layout).panicked]
        ELSE [m |-> m1, panicked |-> FALSE]

\* main and the Extractor side by side on one file, read event by event.
InitMain ==
    /\ pc = "start"
    /\ division \in Divisions
    /\ override_arg \in Overrides
    /\ extractor = None
    /\ track_events = <<>>
    /\ results = <<>>
    /\ smpte_diag = NoDiag
    /\ final_output = NoOutput
    /\ smpte_offset = NoSmpte
    /\ event = NoEvent
    /\ line = <<>>
    /\ midi_file = NoFile
    /\ overflow_checks = FALSE
    /\ u32_fields = NoU32Fields
    /\ tick_log = NoTickLog
    /\ main_state = NoMain

\* main up to its loop, and Extractor::new on the same file: main panics
\* on a multi-track format and both panic on an SMPTE division.
StartBoth ==
    /\ pc = "start"
    /\ \E fmt \in Formats :
          IF fmt = "Multi" \/ division.kind = "Smpte"
          THEN /\ pc' = "panicked"
               /\ UNCHANGED <<extractor, main_state>>
          ELSE /\ pc' = "lockstep"
               /\ extractor' = Some(NewExtractor(override_arg, division.qtr))
               /\ main_state' = Some(NewMain(division.qtr))
    /\ UNCHANGED <<division, override_arg, track_events, results, smpte_diag,
                   final_output, smpte_offset, event, line, midi_file,
                   overflow_checks, u32_fields, tick_log>>

\* The next event of the file goes through one turn of main's loop and
\* through process_event; the MidiEvent process_event returns, if any, is
\* pushed and formatted by StageTraxxFormatter::format.
StepBoth ==
    /\ pc = "lockstep"
    /\ Len(track_events) < MaxEvents
    /\ \E ev \in RawEvents :
       \E t \in {CurTrack, CurTrack + 1} \cap 1..MaxTracks :
       \E smpte_layout \in (IF ev.kind = "SmpteOffset"
                            THEN transmute(ev.smpte)
                            ELSE {[hr |-> 0]}) :
          LET track_event == [ev EXCEPT !.track = t]
              r == process_event(Self, track_event, smpte_layout)
              m == main_loop_body(main_state[1], track_event, override_arg,
                                  smpte_layout)
          IN  /\ (track_events = <<>>) => (t = 1)
              /\ track_events' = Append(track_events, track_event)
              /\ IF r.diag.panicked \/ m.panicked
                 THEN /\ pc' = "panicked"
                      /\ UNCHANGED <<extractor, main_state, results, event,
                                     line>>
                 ELSE /\ pc' = pc
                      /\ extractor' = Some(r.self)
                      /\ main_state' = Some(m.m)
                      /\ results' = IF r.out = None THEN results
                                    ELSE Append(results, r.out[1])
                      /\ event' = IF r.out = None THEN NoEvent ELSE r.out[1]
                      /\ line' = IF r.out = None THEN <<>>
                                 ELSE format(r.out[1])
    /\ UNCHANGED <<division, override_arg, smpte_diag, final_output,
                   smpte_offset, midi_file, overflow_checks, u32_fields,
                   tick_log>>

NextMain ==
    \/ StartBoth
    \/ StepBoth

SpecMain == InitMain /\ [][NextMain]_vars

\* C17: after every event main's ticks, last_tempo_change_tick,
\* ellapsed_seconds and tempo_micros_per_q equal the Extractor's ticks,
\* last_tempo_change_ticks, elapsed_sec and current_tempo_micros_per_qn, and
\* for a note-on, note-off or control change the line main prints is the
\* line StageTraxxFormatter::format makes of the MidiEvent the Extractor
\* emits for it.
C17_DriverEngineLockStep ==
    pc = "lockstep" =>
        /\ main_state[1].ticks = Self.ticks
        /\ main_state[1].last_tempo_change_tick = Self.last_tempo_change_ticks
        /\ main_state[1].ellapsed_seconds = Self.elapsed_sec
        /\ main_state[1].tempo_micros_per_q = Self.current_tempo_micros_per_qn
        /\ (track_events # <<>> /\ Qualifies(track_events[Len(track_events)]))
           => /\ results # <<>>
              /\ event = results[Len(results)]
              /\ line = format(event)
              /\ main_state[1].printed = Some(line)

\* A control change on raw channel 3, 480 ticks after a tempo change to
\* 250,000 at tick 960, no override: both print [midi@00:01.250: CC1.62@4].
C17_Witness ==
    /\ pc = "lockstep"
    /\ division.qtr = 480
    /\ override_arg = None
    /\ Len(track_events) = 3
    /\ track_events[1].kind = "SetTempo" /\ track_events[1].dt = 960
    /\ track_events[2].kind = "SetTempo" /\ track_events[2].dt = 0
    /\ track_events[3].kind = "Control"
    /\ main_state[1].ellapsed_seconds = F64(1)
    /\ Self.elapsed_sec = F64(1)
    /\ main_state[1].printed = Some(line)
    /\ line = <<"[", "m", "i", "d", "i", "@", "0", "0", ":", "0", "1", ".",
                "2", "5", "0", ":", " ", "C", "C", "1", ".", "6", "2", "@",
                "4", "]">>

=============================================================================
